---- MODULE Spec2Model ----
(***************************************************************************)
(* version-sync: check that a version string duplicated in several files   *)
(* is the same everywhere and optionally rewrite every occurrence to the   *)
(* highest version found (src/__main__.py).                                *)
(*                                                                         *)
(* A Python str is modelled as a sequence of one-character strings, a file *)
(* as the sequence of characters stored on disk.  Indices passed to the    *)
(* operators below are Python's (0-based); TLA+ sequences are 1-based.     *)
(***************************************************************************)
EXTENDS Integers, Sequences, FiniteSets, TLC

VARIABLES
    fs,         \* file name -> characters stored on disk
    config,     \* parsed configuration: sequence of [name, locs]
    upgrade,    \* the -u flag
    pc,         \* position of the run
    pkg,        \* index of the package being processed
    loc,        \* index of the location being processed
    versions,   \* process_package's dict  file -> version string
    upgrades,   \* process_config's dict   package -> version
    highest,    \* process_package's highest_version
    out,        \* lines printed so far
    calls,      \* set_version_str calls made for the current package
    extracted,  \* values get_version_str returned for the current package
    result,     \* what process_config returned or raised
    args,       \* arguments of the last direct call of a function
    before,     \* the files at the start of the run, or before the last direct call
    got,        \* value returned by the last direct call
    cmp         \* outcome of the pairwise token comparisons

vars == << fs, config, upgrade, pc, pkg, loc, versions, upgrades, highest, out,
           calls, extracted, result, args, before, got, cmp >>

---------------------------------------------------------------------------
(* Characters and Python values *)

LF == "\n"
CR == "\r"

\* Python's None; distinct from every str (a sequence of single characters).
None == << "<None>" >>

\* Python's True, as process_config returns it.
True == << "True" >>

\* Exceptions a call can raise, as values distinct from every str.
TypeError == << "<TypeError>" >>
IndexError == << "<IndexError>" >>
AssertionError == << "<AssertionError>" >>

IsError(v) == v \in {TypeError, IndexError, AssertionError}

Digits == {"0", "1", "2", "3", "4", "5", "6", "7", "8", "9"}

DigitValue(c) ==
    CASE c = "0" -> 0 [] c = "1" -> 1 [] c = "2" -> 2 [] c = "3" -> 3
      [] c = "4" -> 4 [] c = "5" -> 5 [] c = "6" -> 6 [] c = "7" -> 7
      [] c = "8" -> 8 [] c = "9" -> 9

Min(a, b) == IF a < b THEN a ELSE b
Max(a, b) == IF a < b THEN b ELSE a

\* A slice bound as Python normalises it: negative counts from the end,
\* and the result is clamped to 0..len.
SliceIndex(i, len) == IF i < 0 THEN Max(i + len, 0) ELSE Min(i, len)

\* s[lo:hi]
Slice(s, lo, hi) ==
    LET l == SliceIndex(lo, Len(s))
        h == SliceIndex(hi, Len(s))
    IN  IF h <= l THEN << >> ELSE SubSeq(s, l + 1, h)

\* s[lo:]
SliceFrom(s, lo) == Slice(s, lo, Len(s))

\* s[:hi]
SliceTo(s, hi) == Slice(s, 0, hi)

\* s.find(sub, start): lowest index >= start where sub occurs, else -1.
Find(s, sub, start) ==
    LET st   == SliceIndex(start, Len(s))
        hits == { i \in st .. (Len(s) - Len(sub)) :
                     SubSeq(s, i + 1, i + Len(sub)) = sub }
    IN  IF hits = {} THEN -1
        ELSE CHOOSE i \in hits : \A j \in hits : i <= j

---------------------------------------------------------------------------
(* Text-mode file access: open(file, "r") and open(file, "w") *)

\* Reading with universal newlines: "\r\n" and a lone "\r" are read as "\n".
RECURSIVE ReadText(_)
ReadText(raw) ==
    IF raw = << >> THEN << >>
    ELSE IF Head(raw) = CR
         THEN IF Len(raw) >= 2 /\ raw[2] = LF
              THEN << LF >> \o ReadText(SubSeq(raw, 3, Len(raw)))
              ELSE << LF >> \o ReadText(Tail(raw))
         ELSE << Head(raw) >> \o ReadText(Tail(raw))

\* The lines of a text, each keeping its "\n" (the last may have none).
RECURSIVE SplitLines(_)
SplitLines(text) ==
    IF text = << >> THEN << >>
    ELSE LET nl == Find(text, << LF >>, 0)
         IN  IF nl = -1 THEN << text >>
             ELSE << SubSeq(text, 1, nl + 1) >>
                  \o SplitLines(SubSeq(text, nl + 2, Len(text)))

\* in_file.readlines(), and the lines `for line in in_file` yields.
ReadLines(raw) == SplitLines(ReadText(raw))

\* os.linesep of the platform the program runs on (POSIX).
os_linesep == << LF >>

\* Writing in text mode: every "\n" is written as os.linesep.
RECURSIVE WriteText(_)
WriteText(text) ==
    IF text = << >> THEN << >>
    ELSE (IF Head(text) = LF THEN os_linesep ELSE << Head(text) >>)
         \o WriteText(Tail(text))

RECURSIVE Concat(_)
Concat(ss) == IF ss = << >> THEN << >> ELSE Head(ss) \o Concat(Tail(ss))

\* out_file.writelines(lines)
WriteLines(lines) == WriteText(Concat(lines))

---------------------------------------------------------------------------
(* get_version_str and set_version_str *)

\* The value returned for the selected line (lines 78-82).
VersionInLine(line, position, end) ==
    IF end # << >>
    THEN Slice(line, position, Find(line, end, position))
    ELSE Slice(line, position, -1)

\* get_version_str(file, line_number, position, end) on a file's content:
\* the loop ends without a return when no line has index line_number-1.
get_version_str(raw, line_number, position, end) ==
    LET lines == ReadLines(raw)
    IN  IF line_number \in 1 .. Len(lines)
        THEN VersionInLine(lines[line_number], position, end)
        ELSE None

\* A replacement of the target line that resumes after the terminator
\* instead of at it.
NewLineDropsTerminator(line, position, end, version) ==
    LET end_index == IF end # << >> THEN Find(line, end, position) ELSE -1
    IN  IF end = << >> \/ end_index = -1
        THEN SliceTo(line, position) \o version \o << LF >>
        ELSE SliceTo(line, position) \o version
             \o SliceFrom(line, end_index + Len(end))

\* The replacement of the target line (lines 90-96).
NewLine(line, position, end, version) ==
    LET end_index == IF end # << >> THEN Find(line, end, position) ELSE -1
    IN  IF end = << >> \/ end_index = -1
        THEN SliceTo(line, position) \o version \o << LF >>
        ELSE SliceTo(line, position) \o version \o SliceFrom(line, end_index)

\* lines[line_number-1] for a list of n lines: the 1-based TLA+ index, or 0
\* when Python raises IndexError (negative indices count from the end).
ListIndex(line_number, n) ==
    LET i == line_number - 1
    IN  IF i >= 0 /\ i < n THEN i + 1
        ELSE IF i < 0 /\ -i <= n THEN n + i + 1
        ELSE 0

\* set_version_str(file, line_number, position, end, version): the file's new
\* content, or the exception raised before the file is opened for writing.
set_version_str(raw, line_number, position, end, version) ==
    LET lines == ReadLines(raw)
        k     == ListIndex(line_number, Len(lines))
    IN  IF k = 0 THEN IndexError
        ELSE IF version = None THEN TypeError
        ELSE WriteLines([lines EXCEPT ![k] =
                            NewLine(lines[k], position, end, version)])

---------------------------------------------------------------------------
(* Python dicts: insertion-ordered sequences of <<key, value>> pairs *)

DictKeys(d) == [i \in 1 .. Len(d) |-> d[i][1]]

DictValues(d) == [i \in 1 .. Len(d) |-> d[i][2]]

DictHas(d, k) == \E i \in 1 .. Len(d) : d[i][1] = k

\* d[k]
DictGet(d, k) == d[CHOOSE i \in 1 .. Len(d) : d[i][1] = k][2]

\* d[k] = v: an existing key keeps its place, a new key goes last.
DictSet(d, k, v) ==
    IF DictHas(d, k)
    THEN [i \in 1 .. Len(d) |-> IF d[i][1] = k THEN << k, v >> ELSE d[i]]
    ELSE Append(d, << k, v >>)

---------------------------------------------------------------------------
(* versions_match and get_highest_version *)

\* The loop of versions_match over the dict's values, in key order.
RECURSIVE MatchLoop(_, _)
MatchLoop(vals, base) ==
    IF vals = << >> THEN TRUE
    ELSE IF base = None THEN MatchLoop(Tail(vals), Head(vals))
    ELSE IF base # Head(vals) THEN FALSE
    ELSE MatchLoop(Tail(vals), base)

versions_match(d) == MatchLoop(DictValues(d), None)

\* list(map(int, re.findall(r"\d+", v))): the maximal runs of digits, left to
\* right, each converted to an integer.  cur is the value of the run being
\* read when inrun holds.
RECURSIVE FindAllInt(_, _, _)
FindAllInt(s, cur, inrun) ==
    IF s = << >> THEN (IF inrun THEN << cur >> ELSE << >>)
    ELSE IF Head(s) \in Digits
         THEN FindAllInt(Tail(s),
                         (IF inrun THEN cur ELSE 0) * 10 + DigitValue(Head(s)),
                         TRUE)
         ELSE (IF inrun THEN << cur >> ELSE << >>)
              \o FindAllInt(Tail(s), 0, FALSE)

Tokens(v) == FindAllInt(v, 0, FALSE)

\* The scan of lines 132-140 from index i: TRUE when v_arr replaces
\* highest_version.
RECURSIVE ScanFrom(_, _, _)
ScanFrom(v_arr, highest_version, i) ==
    IF i >= Len(highest_version) THEN FALSE
    ELSE IF i >= Len(v_arr) THEN FALSE
    ELSE IF v_arr[i + 1] > highest_version[i + 1] THEN TRUE
    ELSE IF v_arr[i + 1] < highest_version[i + 1] THEN FALSE
    ELSE ScanFrom(v_arr, highest_version, i + 1)

\* A scan that looks at the first token only.
ReplacesFirstTokenOnly(v_arr, highest_version) ==
    /\ v_arr # << >>
    /\ highest_version # << >>
    /\ v_arr[1] > highest_version[1]

\* A scan whose comparison of line 135 is >= instead of >.
ReplacesOnTie(v_arr, highest_version) ==
    /\ v_arr # << >>
    /\ highest_version # << >>
    /\ v_arr[1] >= highest_version[1]

Replaces(v_arr, highest_version) == ScanFrom(v_arr, highest_version, 0)

\* The loop of get_highest_version over the remaining values.  highest_str
\* and highest_version are None together, so the test is on highest_str.
\* re.findall raises TypeError on a value that is None.
RECURSIVE HighestLoop(_, _, _)
HighestLoop(vals, highest_version, highest_str) ==
    IF vals = << >> THEN highest_str
    ELSE LET v == Head(vals)
         IN  IF v = None THEN TypeError
             ELSE LET v_arr == Tokens(v)
                  IN  IF v_arr = << >>
                      THEN HighestLoop(Tail(vals), highest_version, highest_str)
                      ELSE IF highest_str = None
                      THEN HighestLoop(Tail(vals), v_arr, v)
                      ELSE IF Replaces(v_arr, highest_version)
                      THEN HighestLoop(Tail(vals), v_arr, v)
                      ELSE HighestLoop(Tail(vals), highest_version, highest_str)

\* get_highest_version on the values of the mapping, in iteration order.
get_highest_version(vals) == HighestLoop(vals, << >>, None)

---------------------------------------------------------------------------
(* Bounds and inputs *)

MaxPackages == 2    \* packages in a configuration
MaxLocations == 2   \* locations declared by a package
MaxLine == 2        \* line numbers of a location: 1 .. MaxLine

FileNames == {"a", "b"}

\* Terminators ("end") a location may declare; << >> is "no terminator".
Terminators == { << >>, << "q" >> }

\* Contents of the files a run works on.
RunFiles ==
    { << "1", "q", LF >>,
      << "2", "q", LF >>,
      << "x", "q", LF >>,
      << "1", "q", LF, "2", "q", LF >>,
      << "1", "q", CR, LF, "2", "q" >> }

Locations ==
    [file : FileNames, line : 1 .. MaxLine, char : {0}, end : Terminators]

SeqsUpTo(S, n) == UNION { [1 .. k -> S] : k \in 1 .. n }

PackageNames == << "p1", "p2", "p3" >>

\* config.items(): package i of the mapping is named PackageNames[i].
Configs ==
    { [i \in 1 .. Len(ls) |-> [name |-> PackageNames[i], locs |-> ls[i]]] :
        ls \in SeqsUpTo(SeqsUpTo(Locations, MaxLocations), MaxPackages) }

---------------------------------------------------------------------------
(* Printed lines *)

Line(kind, name, version) == [kind |-> kind, name |-> name, version |-> version]

\* report_mismatch(package, versions)
report_mismatch(package, d) ==
    << Line("Version mismatch found in", package, << >>) >>
    \o [i \in 1 .. Len(d) |-> Line("in", d[i][1], d[i][2])]
    \o << Line("", "", << >>) >>

---------------------------------------------------------------------------
(* A run of process_config(config, upgrade) *)

NoCall == [op |-> "none", file |-> "", line |-> 0, char |-> 0, end |-> << >>,
           version |-> << >>]

Init ==
    /\ fs \in [FileNames -> RunFiles]
    /\ config \in Configs
    /\ upgrade \in BOOLEAN
    /\ pc = "config"
    /\ pkg = 1
    /\ loc = 1
    /\ versions = << >>
    /\ upgrades = << >>
    /\ highest = None
    /\ out = << >>
    /\ calls = << >>
    /\ extracted = << >>
    /\ result = None
    /\ args = NoCall
    /\ before = fs
    /\ got = None
    /\ cmp = << >>

Package == config[pkg]

Location == Package.locs[loc]

\* Line 20, entering process_package: versions = {}.
BeginPackage ==
    /\ pc = "config"
    /\ pkg <= Len(config)
    /\ versions' = << >>
    /\ highest' = None
    /\ calls' = << >>
    /\ extracted' = << >>
    /\ loc' = 1
    /\ pc' = "extract"
    /\ UNCHANGED << fs, config, upgrade, pkg, upgrades, out, result, args,
                    before, got, cmp >>

\* Lines 40-47: one iteration of the extraction loop.
Extract ==
    /\ pc = "extract"
    /\ LET v == get_version_str(fs[Location.file], Location.line,
                                Location.char, Location.end)
       IN  /\ versions' = DictSet(versions, Location.file, v)
           /\ extracted' = Append(extracted, v)
    /\ IF loc < Len(Package.locs)
       THEN loc' = loc + 1 /\ pc' = "extract"
       ELSE loc' = 1 /\ pc' = "decide"
    /\ UNCHANGED << fs, config, upgrade, pkg, upgrades, highest, out, calls,
                    result, args, before, got, cmp >>

\* Lines 21-22 after process_package returned upgrade_to.
Returned(upgrade_to) ==
    /\ upgrades' = IF upgrade_to # None /\ upgrade_to # << >>
                   THEN DictSet(upgrades, Package.name, upgrade_to)
                   ELSE upgrades
    /\ pkg' = pkg + 1
    /\ pc' = "config"

\* Lines 49-52 and 67-70: the decision after the extraction loop.
Decide ==
    /\ pc = "decide"
    /\ IF versions_match(versions)
       THEN /\ Returned(None)
            /\ UNCHANGED << highest, out, result >>
       ELSE LET h == get_highest_version(DictValues(versions))
            IN  IF h = TypeError
                THEN /\ pc' = "done"
                     /\ result' = TypeError
                     /\ UNCHANGED << highest, out, pkg, upgrades >>
                ELSE IF upgrade
                THEN /\ highest' = h
                     /\ out' = Append(out, Line("Upgrading", Package.name, h))
                     /\ pc' = "rewrite"
                     /\ UNCHANGED << pkg, upgrades, result >>
                ELSE /\ highest' = h
                     /\ out' = out \o report_mismatch(Package.name, versions)
                     /\ Returned(h)
                     /\ UNCHANGED result
    /\ UNCHANGED << fs, config, upgrade, loc, versions, calls, extracted,
                    args, before, got, cmp >>

\* Lines 53-66: one iteration of the upgrade loop.
Rewrite ==
    /\ pc = "rewrite"
    /\ LET skip  == DictGet(versions, Location.file) = highest
           new   == set_version_str(fs[Location.file], Location.line,
                                    Location.char, Location.end, highest)
           last  == loc = Len(Package.locs)
           blank == IF last THEN << Line("", "", << >>) >> ELSE << >>
       IN  IF skip
           THEN /\ out' = out \o blank
                /\ UNCHANGED << fs, calls, result >>
                /\ IF last THEN Returned(None) /\ UNCHANGED loc
                   ELSE loc' = loc + 1 /\ UNCHANGED << pc, pkg, upgrades >>
           ELSE /\ calls' = Append(calls, loc)
                /\ IF IsError(new)
                   THEN /\ out' = Append(out, Line("  Updated", Location.file, << >>))
                        /\ pc' = "done"
                        /\ result' = new
                        /\ UNCHANGED << fs, loc, pkg, upgrades >>
                   ELSE /\ out' = Append(out, Line("  Updated", Location.file, << >>))
                                  \o blank
                        /\ fs' = [fs EXCEPT ![Location.file] = new]
                        /\ UNCHANGED result
                        /\ IF last THEN Returned(None) /\ UNCHANGED loc
                           ELSE loc' = loc + 1 /\ UNCHANGED << pc, pkg, upgrades >>
    /\ UNCHANGED << config, upgrade, versions, highest, extracted, args,
                    before, got, cmp >>

\* Lines 24-35, after the loop over the packages.
Finish ==
    /\ pc = "config"
    /\ pkg > Len(config)
    /\ pc' = "done"
    /\ IF upgrades = << >>
       THEN /\ out' = Append(out, Line("All versions match", "", << >>))
            /\ result' = True
       ELSE IF ~upgrade
       THEN /\ out' = Append(out, Line("Run with -u to automatically upgrade the following packages:", "", << >>))
                      \o [i \in 1 .. Len(upgrades) |->
                            Line("to", upgrades[i][1], upgrades[i][2])]
            /\ result' = True
       ELSE /\ out' = out
            /\ result' = AssertionError
    /\ UNCHANGED << fs, config, upgrade, pkg, loc, versions, upgrades, highest,
                    calls, extracted, args, before, got, cmp >>

Next == BeginPackage \/ Extract \/ Decide \/ Rewrite \/ Finish

Spec == Init /\ [][Next]_vars

---------------------------------------------------------------------------
(* Properties of a run *)

Range(s) == { s[i] : i \in 1 .. Len(s) }

AllSame(s) == \A i, j \in 1 .. Len(s) : s[i] = s[j]

LineCount(raw) == Len(ReadLines(raw))

\* The value at location l of the files in f.
ValueAt(f, l) == get_version_str(f[l.file], l.line, l.char, l.end)

ValuesOf(f, p) == [i \in 1 .. Len(p.locs) |-> ValueAt(f, p.locs[i])]

\* Every location of the configuration names a line its file had at the start.
LinesInRange ==
    \A i \in 1 .. Len(config) : \A j \in 1 .. Len(config[i].locs) :
        config[i].locs[j].line <= LineCount(before[config[i].locs[j].file])

\* process_package has just returned for package pkg - 1.
PackageReturned == pc = "config" /\ pkg > 1

LastPackage == config[pkg - 1]

\* C1: after process_package ran with upgrade=True on a package whose
\* extracted values were not all identical and returned, get_version_str
\* returns at every declared location of the package the value
\* get_highest_version chose.  (Stated for configurations whose lines exist.)
C1_UpgradeResolvesMismatch ==
    (PackageReturned /\ upgrade /\ LinesInRange /\ ~AllSame(extracted))
        => /\ highest = get_highest_version(extracted)
           /\ \A i \in 1 .. Len(LastPackage.locs) :
                 ValueAt(fs, LastPackage.locs[i]) = highest

\* C5: process_config never completes normally for a configuration holding a
\* location whose line number exceeds the number of lines of its file.
C5_LineOutOfRangeAborts ==
    (pc = "done" /\ result = True) => LinesInRange

\* The report process_config prints for package p in report-only mode.
ExpectedReport(p) ==
    << Line("Version mismatch found in", p.name, << >>) >>
    \o [i \in 1 .. Len(p.locs) |-> Line("in", p.locs[i].file, ValueAt(before, p.locs[i]))]
    \o << Line("", "", << >>) >>

Contains(s, block) ==
    \E k \in 0 .. (Len(s) - Len(block)) : SubSeq(s, k + 1, k + Len(block)) = block

\* C7: in report-only mode every package whose extracted values are not all
\* identical gets the mismatch report with one line per declared location and
\* a line in the suggestion list, and "All versions match" is printed only
\* when no package had a mismatch.  (Stated for configurations whose lines
\* exist.)
C7_ReportOnlyReportsEveryMismatch ==
    (pc = "done" /\ ~upgrade /\ result = True /\ LinesInRange)
        => /\ \A i \in 1 .. Len(config) :
                 ~AllSame(ValuesOf(before, config[i]))
                    => /\ Contains(out, ExpectedReport(config[i]))
                       /\ \E k \in 1 .. Len(out) :
                             /\ out[k].kind = "to"
                             /\ out[k].name = config[i].name
           /\ Line("All versions match", "", << >>) \in Range(out)
                 => \A i \in 1 .. Len(config) : AllSame(ValuesOf(before, config[i]))

\* C8: a run that hits no file I/O error (every file exists in the model, so:
\* every declared line exists) returns success, and the assert is not reached.
C8_RunReturnsSuccess ==
    (pc = "done" /\ LinesInRange) => result = True

\* The set_version_str calls C9 expects for the package that just returned.
ExpectedCalls ==
    IF ~upgrade \/ AllSame(extracted) THEN << >>
    ELSE SelectSeq([i \in 1 .. Len(extracted) |-> i],
                   LAMBDA i : extracted[i] # get_highest_version(extracted))

\* C9: process_package calls set_version_str exactly for the declared
\* locations whose extracted value differs from the highest version, in
\* declaration order, and not at all without upgrade or without a mismatch.
\* (Stated for configurations whose lines exist.)
C9_RewriteCalls ==
    (PackageReturned /\ LinesInRange) => calls = ExpectedCalls

---------------------------------------------------------------------------
(* Direct calls of get_version_str and set_version_str on one file *)

MaxFileLen == 4     \* characters in a file
MaxChar == 3        \* columns of a location: 0 .. MaxChar

TextChars == {"1", "q", LF, CR}

TextFiles == UNION { [1 .. n -> TextChars] : n \in 0 .. MaxFileLen }

CallTerminators == { << >>, << "q" >>, << "q", "q" >> }

CallVersions == { << >>, << "1" >>, << "q" >>, << "1", "q" >>, << LF >>, << CR >> }

Call(op, line, char, end, version) ==
    [op |-> op, file |-> "a", line |-> line, char |-> char, end |-> end,
     version |-> version]

InitRW ==
    /\ fs \in { [n \in FileNames |-> raw] : raw \in TextFiles }
    /\ config = << >>
    /\ upgrade = FALSE
    /\ pc = "idle"
    /\ pkg = 1
    /\ loc = 1
    /\ versions = << >>
    /\ upgrades = << >>
    /\ highest = None
    /\ out = << >>
    /\ calls = << >>
    /\ extracted = << >>
    /\ result = None
    /\ args = NoCall
    /\ before = fs
    /\ got = None
    /\ cmp = << >>

\* get_version_str(file, line_number, position, end)
GetVersion ==
    /\ pc = "idle"
    /\ \E line \in 1 .. MaxLine, char \in 0 .. MaxChar, end \in CallTerminators :
          /\ args' = Call("get", line, char, end, << >>)
          /\ got' = get_version_str(fs["a"], line, char, end)
    /\ pc' = "get"
    /\ UNCHANGED << fs, config, upgrade, pkg, loc, versions, upgrades, highest,
                    out, calls, extracted, result, before, cmp >>

\* set_version_str(file, line_number, position, end, version): got is None
\* when the call returns and the exception when it raises.
SetVersion ==
    /\ pc = "idle"
    /\ \E line \in 1 .. MaxLine, char \in 0 .. MaxChar, end \in CallTerminators,
          version \in CallVersions :
          LET new == set_version_str(fs["a"], line, char, end, version)
          IN  /\ args' = Call("set", line, char, end, version)
              /\ IF IsError(new)
                 THEN got' = new /\ fs' = fs
                 ELSE got' = None /\ fs' = [fs EXCEPT !["a"] = new]
    /\ before' = fs
    /\ pc' = "set"
    /\ UNCHANGED << config, upgrade, pkg, loc, versions, upgrades, highest,
                    out, calls, extracted, result, cmp >>

\* get_version_str with the arguments of the set_version_str that just returned.
GetAfterSet ==
    /\ pc = "set"
    /\ got = None
    /\ got' = get_version_str(fs["a"], args.line, args.char, args.end)
    /\ pc' = "roundtrip"
    /\ UNCHANGED << fs, config, upgrade, pkg, loc, versions, upgrades, highest,
                    out, calls, extracted, result, args, before, cmp >>

NextRW == GetVersion \/ SetVersion \/ GetAfterSet

SpecRW == InitRW /\ [][NextRW]_vars

\* The line the last call selected, as the program read it before the call.
LineInFile == args.line <= LineCount(before["a"])

TargetLine == ReadLines(before["a"])[args.line]

\* The line without its trailing newline.
Content(line) ==
    IF line # << >> /\ line[Len(line)] = LF THEN SubSeq(line, 1, Len(line) - 1)
    ELSE line

\* Index of the terminator in the target line at or after the column, or -1.
TerminatorIndex ==
    IF args.end = << >> THEN -1 ELSE Find(TargetLine, args.end, args.char)

\* C2 as claimed: for every line within the file, column, terminator and
\* newVersion, get_version_str after set_version_str returns newVersion.
C2_RoundTrip ==
    (pc = "roundtrip" /\ LineInFile) => got = args.version

\* What follows newVersion in the rewritten line.
TextAfterVersion ==
    IF TerminatorIndex = -1 THEN << LF >> ELSE SliceFrom(TargetLine, TerminatorIndex)

\* No occurrence of the terminator begins inside newVersion in the rewritten line.
TerminatorNotInVersion ==
    \/ args.end = << >>
    \/ LET k == Find(args.version \o TextAfterVersion, args.end, 0)
       IN  k = -1 \/ k >= Len(args.version)

\* C2 amended: the round trip holds when the column lies within the line's
\* content, newVersion holds no newline character and no occurrence of the
\* terminator begins inside newVersion in the rewritten line.
C2_RoundTripAmended ==
    ( /\ pc = "roundtrip"
      /\ LineInFile
      /\ args.char <= Len(Content(TargetLine))
      /\ LF \notin Range(args.version)
      /\ CR \notin Range(args.version)
      /\ TerminatorNotInVersion )
        => got = args.version

\* C2 witness: a rewrite between column and a found terminator, read back.
C2_Witness ==
    /\ pc = "roundtrip"
    /\ LineInFile
    /\ args.char <= Len(Content(TargetLine))
    /\ TerminatorIndex > args.char
    /\ args.version = << "1" >>
    /\ TerminatorNotInVersion
    /\ fs # before
    /\ got = args.version

\* The lines of a file as stored, each with its terminator ("\n", "\r\n", "\r").
RECURSIVE RawLines(_)
RawLines(raw) ==
    IF raw = << >> THEN << >>
    ELSE LET ends == { i \in 1 .. Len(raw) : raw[i] \in {LF, CR} }
         IN  IF ends = {} THEN << raw >>
             ELSE LET i == CHOOSE i \in ends : \A j \in ends : i <= j
                      n == IF raw[i] = CR /\ i < Len(raw) /\ raw[i + 1] = LF
                           THEN i + 1 ELSE i
                  IN  << SubSeq(raw, 1, n) >>
                      \o RawLines(SubSeq(raw, n + 1, Len(raw)))

\* Every line of the file ends as "\n" or "\r\n" on disk (no lone "\r").
NoLoneCR(raw) ==
    \A i \in 1 .. Len(raw) : raw[i] = CR => (i < Len(raw) /\ raw[i + 1] = LF)

\* C3: set_version_str keeps the number of lines, every other line with its
\* terminator, the characters of the target line before the column and, when
\* the terminator is found, everything from the terminator on.  (Stated for
\* a column within the line's content, a newVersion without newline
\* characters and a file without lone "\r".)
C3_RewriteChangesOnlyTheSpan ==
    ( /\ pc = "set" /\ got = None /\ LineInFile
      /\ args.char <= Len(Content(TargetLine))
      /\ LF \notin Range(args.version)
      /\ CR \notin Range(args.version)
      /\ NoLoneCR(before["a"]) )
        => LET old == RawLines(before["a"])
               new == RawLines(fs["a"])
               k   == args.line
           IN  /\ Len(new) = Len(old)
               /\ \A i \in 1 .. Len(old) : i # k => new[i] = old[i]
               /\ SliceTo(new[k], args.char) = SliceTo(old[k], args.char)
               /\ TerminatorIndex # -1
                    => LET rest == SliceFrom(old[k], TerminatorIndex)
                       IN  SliceFrom(new[k], Len(new[k]) - Len(rest)) = rest

\* C4: get_version_str returns the text from the column up to the first
\* terminator at or after it and, without one, the text from the column to
\* the end of the line with only the trailing newline removed, also on a
\* last line that has no trailing newline.
C4_ExtractedValue ==
    (pc = "get" /\ LineInFile)
        => got = IF TerminatorIndex # -1
                 THEN Slice(TargetLine, args.char, TerminatorIndex)
                 ELSE SliceFrom(Content(TargetLine), args.char)

---------------------------------------------------------------------------
(* Direct calls of get_highest_version *)

MaxTokens == 2      \* numeric tokens in a version string
MaxVersions == 3    \* values in the mapping passed to get_highest_version

TokenTexts == { << "2" >>, << "1", "0" >> }

RECURSIVE JoinDots(_)
JoinDots(ts) ==
    IF ts = << >> THEN << >>
    ELSE IF Len(ts) = 1 THEN ts[1]
    ELSE ts[1] \o << "." >> \o JoinDots(Tail(ts))

\* "x" (no digit) and the dotted versions of up to MaxTokens tokens.
VersionStrings ==
    { << "x" >> }
    \cup { JoinDots(ts) : ts \in SeqsUpTo(TokenTexts, MaxTokens) }

InitHV ==
    /\ extracted \in SeqsUpTo(VersionStrings, MaxVersions)
    /\ fs = [n \in FileNames |-> << >>]
    /\ config = << >>
    /\ upgrade = FALSE
    /\ pc = "idle"
    /\ pkg = 1
    /\ loc = 1
    /\ versions = << >>
    /\ upgrades = << >>
    /\ highest = None
    /\ out = << >>
    /\ calls = << >>
    /\ result = None
    /\ args = NoCall
    /\ before = fs
    /\ got = None
    /\ cmp = << >>

\* get_highest_version on a mapping whose values are, in iteration order,
\* extracted.
Highest ==
    /\ pc = "idle"
    /\ got' = get_highest_version(extracted)
    /\ pc' = "highest"
    /\ UNCHANGED << fs, config, upgrade, pkg, loc, versions, upgrades, highest,
                    out, calls, extracted, result, args, before, cmp >>

\* The scan of lines 132-140 on every pair of the values' token vectors:
\* cmp[i][j] tells whether value i, met while value j is the highest, replaces it.
Compare ==
    /\ pc = "idle"
    /\ cmp' = [i \in 1 .. Len(extracted) |-> [j \in 1 .. Len(extracted) |->
                 Replaces(Tokens(extracted[i]), Tokens(extracted[j]))]]
    /\ pc' = "compared"
    /\ UNCHANGED << fs, config, upgrade, pkg, loc, versions, upgrades, highest,
                    out, calls, extracted, result, args, before, got >>

NextHV == Highest \/ Compare

SpecHV == InitHV /\ [][NextHV]_vars

HasDigit(s) == \E i \in 1 .. Len(s) : s[i] \in Digits

\* v beats h: at the first index within their common length where they
\* differ, v's integer is the larger.
Beats(v, h) ==
    \E i \in 1 .. Min(Len(v), Len(h)) :
        /\ v[i] > h[i]
        /\ \A k \in 1 .. (i - 1) : v[k] = h[k]

\* C6: when some value holds a digit, get_highest_version returns one of the
\* mapping's strings that holds a digit and whose token vector no other
\* value's token vector beats; it returns None exactly when no value holds a
\* digit.
C6_HighestIsUnbeaten ==
    pc = "highest"
        => IF \E i \in 1 .. Len(extracted) : HasDigit(extracted[i])
           THEN /\ got \in Range(extracted)
                /\ HasDigit(got)
                /\ \A j \in 1 .. Len(extracted) :
                      ~Beats(Tokens(extracted[j]), Tokens(got))
           ELSE got = None

\* C6 witness: the highest was replaced twice, by the second and by the third
\* value of the mapping.
C6_Witness ==
    /\ pc = "highest"
    /\ Len(extracted) = 3
    /\ Beats(Tokens(extracted[2]), Tokens(extracted[1]))
    /\ Beats(Tokens(extracted[3]), Tokens(extracted[2]))
    /\ got = extracted[3]

\* The values whose token vectors the scan compares: get_highest_version
\* skips a value without digits (lines 126-127).
Compared == { i \in 1 .. Len(cmp) : HasDigit(extracted[i]) }

\* a <= b: b is not replaced (strictly beaten) by a.
Leq(i, j) == ~cmp[i][j]

Total == \A i, j \in Compared : Leq(i, j) \/ Leq(j, i)

\* C10 as claimed: the comparison is a total preorder, total and transitive.
C10_TotalPreorder ==
    pc = "compared"
        => /\ Total
           /\ \A i, j, k \in Compared : (Leq(i, j) /\ Leq(j, k)) => Leq(i, k)

TokenCount(i) == Len(Tokens(extracted[i]))

\* C10 amended: the comparison is total, and transitive through a middle
\* vector b that is at least as long as the shorter of a and c.
C10_TotalAndTransitiveThroughLongMiddle ==
    pc = "compared"
        => /\ Total
           /\ \A i, j, k \in Compared :
                 ( /\ Leq(i, j) /\ Leq(j, k)
                   /\ TokenCount(j) >= Min(TokenCount(i), TokenCount(k)) )
                    => Leq(i, k)

\* C10 witness: three vectors of different lengths in strictly rising order.
C10_Witness ==
    /\ pc = "compared"
    /\ Len(cmp) = 3
    /\ TokenCount(1) = 1 /\ TokenCount(2) = 2 /\ TokenCount(3) = 2
    /\ cmp[2][1] /\ cmp[3][2] /\ cmp[3][1]
    /\ Leq(1, 2) /\ Leq(2, 3) /\ Leq(1, 3)

====
